---- MODULE Spec2Model ----
(***************************************************************************)
(* YUI chat client: the streaming pipeline of the frontend.                *)
(*   ChatAPI.streamChatCompletion  (services/api.ts)  transport decoder    *)
(*                                 and delta extractor, an async generator *)
(*   handleSendMessage             (App.tsx)  reasoning/content splitter   *)
(*   useChatStore                  (store/index.ts)  message store (sink)  *)
(* App.tsx holds three revisions of the component; the model follows the   *)
(* one that syncs the assistant message to the database in its finally     *)
(* block (lines 681-958); the streaming loop is the same in all three.     *)
(* Three specifications: Spec follows one handleSendMessage run in full,   *)
(* DecSpec the generator alone under a plain consumer, UiSpec the user     *)
(* interface starting and stopping several runs, each in outline.          *)
(* Strings are TLA+ strings; JavaScript string methods are operators over  *)
(* them.  Absent / undefined / null JavaScript values are modelled by the  *)
(* falsy value of the field's type ("" or FALSE).                          *)
(***************************************************************************)
EXTENDS Integers, Sequences, FiniteSets, TLC

\* ---------------------------------------------------------------- bounds
MaxRuns == 3
MaxReads == 3
MaxDecReads == 3
MaxLiveReads == 2
MaxFolders == 3

\* ------------------------------------------------------- string helpers
CharAt(s, i) == SubSeq(s, i, i)

IsWs(c) == c \in {" ", "\n", "\r", "\t"}

\* String.prototype.trim
RECURSIVE trimStart(_)
trimStart(s) ==
  IF Len(s) > 0 /\ IsWs(CharAt(s, 1)) THEN trimStart(SubSeq(s, 2, Len(s))) ELSE s

RECURSIVE trimEnd(_)
trimEnd(s) ==
  IF Len(s) > 0 /\ IsWs(CharAt(s, Len(s))) THEN trimEnd(SubSeq(s, 1, Len(s) - 1)) ELSE s

trim(s) == trimEnd(trimStart(s))

\* String.prototype.substring(from, to) and substring(from), 0-based
substring(s, from, to) == SubSeq(s, from + 1, to)
substringFrom(s, from) == SubSeq(s, from + 1, Len(s))

\* String.prototype.startsWith
startsWith(s, p) == Len(s) >= Len(p) /\ SubSeq(s, 1, Len(p)) = p

\* String.prototype.indexOf, 0-based, -1 when absent
indexOf(s, p) ==
  LET hits == {i \in 0..(Len(s) - Len(p)) : SubSeq(s, i + 1, i + Len(p)) = p}
  IN  IF hits = {} THEN -1 ELSE CHOOSE i \in hits : \A j \in hits : i <= j

\* String.prototype.split('\n')
RECURSIVE split(_)
split(s) ==
  LET i == indexOf(s, "\n")
  IN  IF i = -1 THEN <<s>>
      ELSE <<substring(s, 0, i)>> \o split(substringFrom(s, i + 1))

\* the i flag of a regular expression folds case
UpperChars == "ABCDEFGHIJKLMNOPQRSTUVWXYZ"
LowerChars == "abcdefghijklmnopqrstuvwxyz"

toLowerChar(c) ==
  LET hits == {i \in 1..Len(UpperChars) : CharAt(UpperChars, i) = c}
  IN  IF hits = {} THEN c ELSE CharAt(LowerChars, CHOOSE i \in hits : TRUE)

RECURSIVE toLower(_)
toLower(s) ==
  IF Len(s) = 0 THEN s ELSE toLowerChar(CharAt(s, 1)) \o toLower(SubSeq(s, 2, Len(s)))

CloseTag == "</think>"
OpenTag == "<think>"

\* mutant: the last match instead of the first
closeTagRegexIndex_last(s) ==
  LET L == Len(CloseTag)
      t == toLower(s)
      hits == {i \in 0..(Len(s) - L) : SubSeq(t, i + 1, i + L) = CloseTag}
  IN  IF hits = {} THEN -1 ELSE CHOOSE i \in hits : \A j \in hits : i >= j

\* fullContent.match(/<\/think>/i): index of the first match, -1 for null
closeTagRegexIndex(s) ==
  LET L == Len(CloseTag)
      t == toLower(s)
      hits == {i \in 0..(Len(s) - L) : SubSeq(t, i + 1, i + L) = CloseTag}
  IN  IF hits = {} THEN -1 ELSE CHOOSE i \in hits : \A j \in hits : i <= j

\* ------------------------------------------------------ the wire format
\* ChatStreamEvent (services/api.ts): one yielded event; a missing field is
\* "" / FALSE.
Event(rd, d, dn, fr, err) ==
  [reasoning_delta |-> rd, delta |-> d, done |-> dn, finish_reason |-> fr, error |-> err]

\* The JSON values the payloads of this model decode to.  finish_reason null
\* and a missing key are both ""; a choice without a delta key has NoDelta.
Delta(rc, c) == [present |-> TRUE, reasoning_content |-> rc, content |-> c]
NoDelta == [present |-> FALSE, reasoning_content |-> "", content |-> ""]
Choice(rc, c, fr) == [delta |-> Delta(rc, c), finish_reason |-> fr]
Parsed(choices, d, dn) == [ok |-> TRUE, choices |-> choices, delta |-> d, done |-> dn]
ParsedChoices(rc, c, fr) == Parsed(<<Choice(rc, c, fr)>>, "", FALSE)
ParsedLegacy(d) == Parsed(<<>>, d, FALSE)
ParsedDoneFlag == Parsed(<<>>, "", TRUE)
ParsedOther == Parsed(<<>>, "", FALSE)
SyntaxError == [ok |-> FALSE, choices |-> <<>>, delta |-> "", done |-> FALSE]

\* payload texts
JContent(c) == "{\"choices\":[{\"delta\":{\"content\":\"" \o c \o "\"}}]}"
JReasoning(r) == "{\"choices\":[{\"delta\":{\"reasoning_content\":\"" \o r \o "\"}}]}"
JBoth(r, c) ==
  "{\"choices\":[{\"delta\":{\"reasoning_content\":\"" \o r \o "\",\"content\":\"" \o c \o "\"}}]}"
JFinish(fr) == "{\"choices\":[{\"delta\":{},\"finish_reason\":\"" \o fr \o "\"}]}"
JNullFinish(c) == "{\"choices\":[{\"delta\":{\"content\":\"" \o c \o "\"},\"finish_reason\":null}]}"
JLegacy(d) == "{\"delta\":\"" \o d \o "\"}"
JDoneFlag == "{\"done\":true}"
JOther == "{\"id\":1}"
\* payloads that fit more than one shape, and a choice without a delta key
JEveryShape ==
  "{\"choices\":[{\"delta\":{\"reasoning_content\":\"r1\",\"content\":\" a\"},"
    \o "\"finish_reason\":\"stop\"}],\"delta\":\"d\",\"done\":true}"
JLegacyAndDone == "{\"delta\":\"d\",\"done\":true}"
JEmptyChoices == "{\"choices\":[],\"done\":true}"
JChoiceNoDelta == "{\"choices\":[{\"finish_reason\":\"stop\"}],\"delta\":\"d\"}"

\* the texts a content delta carries in this model (JSON-escaped form is the
\* same text: none holds a quote, a backslash or a control character)
ContentTexts == {" a", "b ", "</THI", "nk> c", "A<think>B</think>C"}
ReasoningTexts == {"r1", "r2"}

\* JSON.parse on the payloads of this model; every other text of the model's
\* universe is not valid JSON and throws
JSONparse(data) ==
  IF \E c \in ContentTexts : data = JContent(c)
    THEN ParsedChoices("", CHOOSE c \in ContentTexts : data = JContent(c), "")
  ELSE IF \E r \in ReasoningTexts : data = JReasoning(r)
    THEN ParsedChoices(CHOOSE r \in ReasoningTexts : data = JReasoning(r), "", "")
  ELSE IF \E r \in ReasoningTexts, c \in ContentTexts : data = JBoth(r, c)
    THEN LET p == CHOOSE p \in ReasoningTexts \X ContentTexts : data = JBoth(p[1], p[2])
         IN  ParsedChoices(p[1], p[2], "")
  ELSE IF \E c \in ContentTexts : data = JNullFinish(c)
    THEN ParsedChoices("", CHOOSE c \in ContentTexts : data = JNullFinish(c), "")
  ELSE IF data = JFinish("stop") THEN ParsedChoices("", "", "stop")
  ELSE IF data = JLegacy("d") THEN ParsedLegacy("d")
  ELSE IF data = JDoneFlag THEN ParsedDoneFlag
  ELSE IF data = JOther THEN ParsedOther
  ELSE IF data = JEveryShape THEN Parsed(<<Choice("r1", " a", "stop")>>, "d", TRUE)
  ELSE IF data = JLegacyAndDone THEN Parsed(<<>>, "d", TRUE)
  ELSE IF data = JEmptyChoices THEN Parsed(<<>>, "", TRUE)
  ELSE IF data = JChoiceNoDelta
    THEN Parsed(<<[delta |-> NoDelta, finish_reason |-> "stop"]>>, "d", FALSE)
  ELSE SyntaxError

DataPrefix == "data: "
Terminator == "[DONE]"

\* mutant: the standard shape needs a delta object in the choice
hasChoice_needsDelta(parsed) ==
  Len(parsed.choices) > 0 /\ parsed.choices[1].delta.present

\* parsed.choices && parsed.choices[0]
hasChoice(parsed) == Len(parsed.choices) > 0

\* const delta = choice.delta || {}
deltaOf(choice) == IF choice.delta.present THEN choice.delta ELSE Delta("", "")

\* mutant: the generator goes on after a final event
returnsAfter_never(ev) == FALSE
\* mutant: the generator goes on after the error event of its catch block
returnsAfter_doneOnly(ev) == ev.done

\* the yields that are followed by return or by the end of the generator:
\* every done event and the error event of the catch block
returnsAfter(ev) == ev.done \/ ev.error # ""

\* for (const line of lines) { ... }: what one line makes the generator yield,
\* and whether the generator returns after it
lineEvents(line) ==
  IF ~startsWith(line, DataPrefix) THEN [evs |-> <<>>, ret |-> FALSE]
  ELSE
    LET data == trim(substringFrom(line, Len(DataPrefix)))
    IN  IF data = "" \/ data = Terminator
          THEN [evs |-> <<Event("", "", TRUE, "", "")>>, ret |-> TRUE]
        ELSE
          LET parsed == JSONparse(data)
          IN  IF ~parsed.ok THEN [evs |-> <<>>, ret |-> FALSE]
              ELSE IF hasChoice(parsed) THEN
                LET choice == parsed.choices[1]
                    delta == deltaOf(choice)
                IN  [evs |->
                       (IF delta.reasoning_content # ""
                          THEN <<Event(delta.reasoning_content, "", FALSE, "", "")>> ELSE <<>>)
                       \o (IF delta.content # ""
                          THEN <<Event("", delta.content, FALSE, "", "")>> ELSE <<>>)
                       \o (IF choice.finish_reason # ""
                          THEN <<Event("", "", TRUE, choice.finish_reason, "")>> ELSE <<>>),
                     ret |-> choice.finish_reason # ""]
              ELSE IF parsed.delta # ""
                THEN [evs |-> <<Event("", parsed.delta, FALSE, "", "")>>, ret |-> FALSE]
              ELSE IF parsed.done
                THEN [evs |-> <<Event("", "", TRUE, "", "")>>, ret |-> TRUE]
              ELSE [evs |-> <<>>, ret |-> FALSE]

\* the transport's chunks: whole SSE lines (Chunks) for the pipeline, and
\* fragments, malformed lines and several lines at once (DecChunks) for the
\* decoder alone
Line(payload) == DataPrefix \o payload \o "\n"

Chunks ==
  {Line(JContent(c)) : c \in ContentTexts \ {"b "}}
  \cup {Line(JReasoning(r)) : r \in ReasoningTexts}
  \cup {Line(JBoth("r1", " a")), Line(JFinish("stop")), Line(Terminator)}

DecChunks ==
  { Line(JLegacyAndDone), "data: {\"del", "ta\":\"d\"}\n", "\n",
    Line(Terminator), "data: [DO", "NE]\r\n", DataPrefix \o Terminator,
    ": ping\n", "data: {oops\n", Line(JOther),
    Line(JBoth("r2", "b ")), Line(JNullFinish(" a")) \o Line(JFinish("stop")) \o Line(JLegacy("d")),
    Line(JDoneFlag),
    "data: \n" \o Line(JLegacyAndDone),
    Line(JEveryShape), Line(JChoiceNoDelta), Line(JEmptyChoices) }

FetchErrors == {"HTTP error! status: 500", "Response body is null", "Failed to fetch"}

\* ------------------------------------------------------------ the store
ConvIds == {1, 2}
NoMessage == [id |-> 0, role |-> "", content |-> "", reasoning_content |-> ""]

\* conversations.find(...)?.messages.find(m => m.id === id), undefined as
\* NoMessage (every read of it is `?.field || ''`)
findMessage(msgs, id) ==
  LET hits == {i \in 1..Len(msgs) : msgs[i].id = id}
  IN  IF hits = {} THEN NoMessage ELSE msgs[CHOOSE i \in hits : \A j \in hits : i <= j]

\* store.addMessage: messages: [...c.messages, newMessage]
addMessage(convs, conversationId, newMessage) ==
  [c \in ConvIds |-> IF c = conversationId THEN Append(convs[c], newMessage) ELSE convs[c]]

\* mutant: the supplied texts are appended to the stored ones
mergeMessage_appends(m, messageUpdates) ==
  [k \in DOMAIN m |-> IF k \in DOMAIN messageUpdates THEN m[k] \o messageUpdates[k] ELSE m[k]]

\* { ...m, ...messageUpdates }
mergeMessage(m, messageUpdates) ==
  [k \in DOMAIN m |-> IF k \in DOMAIN messageUpdates THEN messageUpdates[k] ELSE m[k]]

\* mutant: every message of the conversation takes the update
updateMessage_everyMessage(convs, conversationId, messageId, messageUpdates) ==
  [c \in ConvIds |->
     IF c = conversationId
       THEN [i \in 1..Len(convs[c]) |-> mergeMessage(convs[c][i], messageUpdates)]
       ELSE convs[c]]

\* store.updateMessage
updateMessage(convs, conversationId, messageId, messageUpdates) ==
  [c \in ConvIds |->
     IF c = conversationId
       THEN [i \in 1..Len(convs[c]) |->
               IF convs[c][i].id = messageId
                 THEN mergeMessage(convs[c][i], messageUpdates) ELSE convs[c][i]]
       ELSE convs[c]]

\* --------------------------------------------------------- the splitter
\* reasoning / content around the match of the closing tag
splitAtTag(text, index) ==
  [content |-> trim(substringFrom(text, index + Len(CloseTag))),
   reasoning_content |-> trim(substring(text, 0, index))]

\* mutant: the tag is looked for in the delta alone
scanText_deltaOnly(fullContent, delta) == delta

\* where the handler looks for the closing tag after a content delta
scanText(fullContent, delta) == fullContent

\* mutants: the scan ignores the model's flag / ignores API reasoning
usesTagScan_anyModel(isReasoning, hasApiReasoning) == ~hasApiReasoning
usesTagScan_flagOnly(isReasoning, hasApiReasoning) == isReasoning

\* whether a content delta / a done event takes the tag-scanning path
usesTagScan(isReasoning, hasApiReasoning) == isReasoning /\ ~hasApiReasoning

\* mutant: the text held as reasoning is trimmed while the tag is awaited
pendingReasoning_trimmed(full) == trim(full)

\* reasoning_content: fullContent, while no closing tag was found
pendingReasoning(full) == full

\* mutant: a delta without the tag clears hasFoundCloseTag
onContentDelta_forgets(isReasoning, hasApiReasoning, hasFound, full, delta) ==
  IF isReasoning /\ ~hasApiReasoning THEN
    LET index == closeTagRegexIndex(full)
    IN  IF index # -1
          THEN [upd |-> <<splitAtTag(full, index)>>,
                found |-> closeTagRegexIndex(delta) # -1 \/ ~hasFound]
          ELSE [upd |-> <<[content |-> "", reasoning_content |-> full]>>, found |-> FALSE]
  ELSE [upd |-> <<[content |-> full]>>, found |-> hasFound]

\* if (event.delta) { ... }: the updates (at most one) the handler issues
\* for a content delta, and the new hasFoundCloseTag; full is fullContent
\* after the delta was appended
onContentDelta(isReasoning, hasApiReasoning, hasFound, full, delta) ==
  IF usesTagScan(isReasoning, hasApiReasoning) THEN
    LET index == closeTagRegexIndex(scanText(full, delta))
    IN  IF ~hasFound THEN
          IF index # -1
            THEN [upd |-> <<splitAtTag(full, index)>>, found |-> TRUE]
            ELSE [upd |-> <<[content |-> "", reasoning_content |-> pendingReasoning(full)]>>,
                  found |-> FALSE]
        ELSE
          IF index # -1
            THEN [upd |-> <<splitAtTag(full, index)>>, found |-> TRUE]
            ELSE [upd |-> <<>>, found |-> TRUE]
  ELSE [upd |-> <<[content |-> full]>>, found |-> hasFound]

\* mutant: the end of the stream leaves the message as it is
onDone_noFallback(isReasoning, hasApiReasoning, full) == <<>>

\* if (event.done) { ... }: the update the end of the stream issues
onDone(isReasoning, hasApiReasoning, full) ==
  IF usesTagScan(isReasoning, hasApiReasoning) /\ closeTagRegexIndex(full) = -1
    THEN <<[content |-> full, reasoning_content |-> ""]>>
    ELSE <<>>

\* ---------------------------------------------------------------- state
VARIABLES
  conversations,          \* store: conversation id -> its messages
  currentConversationId,  \* store: the selected conversation
  isGenerating,           \* store
  abortController,        \* ChatAPI.abortController: 0 is null, 1 the stream's
  signalAborted,          \* the stream's AbortSignal
  hs,                     \* handleSendMessage: "idle", "streaming", "finished"
  cid,                    \* its closure's currentConversationId
  assistantId,            \* assistantMessage.id
  isReasoningModel, fullContent, hasApiReasoningContent, hasFoundCloseTag,
  gen,                    \* streamChatCompletion: "idle", "fetch", "read", "emit", "closed"
  buffer,                 \* its partial line
  lines,                  \* the lines its for loop has still to visit
  pending,                \* the events of the current line not yet yielded
  reads,                  \* chunks read so far
  dbUpdateCalls,          \* dbApi.updateMessage requests for the assistant message
  dbFinalSyncs,           \* dbApi.addMessage requests of the finally block
  wire,                   \* history: the text received so far
  yielded,                \* history: the events yielded so far
  scanned,                \* history: the last handler step ran the tag scan
  stopSnap,               \* history: the assistant message when the stream was aborted
  failure,                \* history: the message of the transport failure, "" for none
  runs,                   \* the handleSendMessage runs the user interface started
  revision,               \* the revision of App.tsx that is running
  folders,                \* store.folders, the ids in order
  folderId,               \* folderId of each conversation, NoFolder when it has none
  deletedFolders,         \* history: the ids deleteFolder removed
  folderOp                \* history: the last folder operation and what it moved

storeVars == <<conversations, currentConversationId, isGenerating>>
handlerVars == <<hs, cid, assistantId, isReasoningModel, fullContent,
                 hasApiReasoningContent, hasFoundCloseTag>>
genVars == <<gen, buffer, lines, pending, reads, abortController, signalAborted>>
dbVars == <<dbUpdateCalls, dbFinalSyncs>>
histVars == <<wire, yielded, scanned, stopSnap, failure>>
uiVars == <<runs, revision>>
folderVars == <<folders, folderId, deletedFolders, folderOp>>
vars == <<storeVars, handlerVars, genVars, dbVars, histVars, uiVars, folderVars>>

DefaultFolder == "default-uncategorized"
NoFolder == ""
NoOp == [op |-> "", id |-> "", moved |-> {}]

\* loadFromDatabase: the folders, with the default folder created when there
\* is none; a conversation is created without folderId
foldersLoaded ==
  /\ folders = <<DefaultFolder>>
  /\ folderId = [c \in ConvIds |-> NoFolder]
  /\ deletedFolders = {}
  /\ folderOp = NoOp

UserMessageId == 1
AssistantMessageId == 2
NoSnap == <<>>

\* the messages of an earlier, finished exchange
OldMessages ==
  << [id |-> 3, role |-> "user", content |-> "hello", reasoning_content |-> ""],
     [id |-> 4, role |-> "assistant", content |-> "old", reasoning_content |-> "why"] >>

\* the user message handleSendMessage adds
userMessage ==
  [id |-> UserMessageId, role |-> "user", content |-> "hi", reasoning_content |-> ""]

\* the app after start-up: a new conversation, selected, and a conversation
\* with an earlier exchange; nothing streaming
Init ==
  /\ conversations = [c \in ConvIds |-> IF c = 2 THEN OldMessages ELSE <<>>]
  /\ currentConversationId = 1
  /\ isGenerating = FALSE
  /\ abortController = 0
  /\ signalAborted = FALSE
  /\ hs = "idle"
  /\ cid = 0
  /\ assistantId = 0
  /\ isReasoningModel = FALSE
  /\ fullContent = ""
  /\ hasApiReasoningContent = FALSE
  /\ hasFoundCloseTag = FALSE
  /\ gen = "idle"
  /\ buffer = ""
  /\ lines = <<>>
  /\ pending = <<>>
  /\ reads = 0
  /\ dbUpdateCalls = 0
  /\ dbFinalSyncs = 0
  /\ wire = ""
  /\ yielded = <<>>
  /\ scanned = FALSE
  /\ stopSnap = NoSnap
  /\ failure = ""
  /\ runs = <<>>
  /\ revision = 2
  /\ foldersLoaded

\* the assistant message of the running handler, wherever it is stored
assistantMsg == findMessage(conversations[cid], assistantId)

\* JavaScript runs to the next await: a user action runs only while the
\* generator waits for fetch() or reader.read(), or outside a stream
AtAwait == hs \in {"idle", "finished"} \/ (hs = "streaming" /\ gen \in {"fetch", "read"})

\* ------------------------------------------------- streamChatCompletion
\* the generator after the consumer took an event: further events of the
\* line, the next line, or the next read
genAfterYield(rest, more) ==
  IF rest # <<>> \/ more # <<>> THEN "emit" ELSE "read"

\* const response = await fetch(...); const reader = response.body.getReader()
FetchOk ==
  /\ gen = "fetch" /\ ~signalAborted
  /\ gen' = "read"
  /\ UNCHANGED <<buffer, lines, pending, reads, abortController, signalAborted>>
  /\ UNCHANGED <<uiVars, folderVars, storeVars, handlerVars, dbVars, histVars>>

\* fetch rejects, !response.ok or no body: catch yields { error }
FetchFail ==
  /\ gen = "fetch" /\ ~signalAborted
  /\ \E m \in FetchErrors :
       /\ pending' = <<Event("", "", FALSE, "", m)>>
       /\ failure' = m
  /\ gen' = "emit" /\ lines' = <<>>
  /\ UNCHANGED <<buffer, reads, abortController, signalAborted>>
  /\ UNCHANGED <<uiVars, folderVars, storeVars, handlerVars, dbVars, wire, yielded, scanned, stopSnap>>

\* reader.read() rejects with a network error: catch yields { error }
ReadFail ==
  /\ gen = "read" /\ ~signalAborted
  /\ pending' = <<Event("", "", FALSE, "", "network error")>>
  /\ failure' = "network error"
  /\ gen' = "emit" /\ lines' = <<>>
  /\ UNCHANGED <<buffer, reads, abortController, signalAborted>>
  /\ UNCHANGED <<uiVars, folderVars, storeVars, handlerVars, dbVars, wire, yielded, scanned, stopSnap>>

\* mutant: the catch block does not tell AbortError apart
AbortRejects_asError ==
  /\ gen \in {"fetch", "read"} /\ signalAborted
  /\ pending' = <<Event("", "", FALSE, "", "The user aborted a request.")>>
  /\ gen' = "emit" /\ lines' = <<>>
  /\ UNCHANGED <<buffer, reads, abortController, signalAborted>>
  /\ UNCHANGED <<uiVars, folderVars, storeVars, handlerVars, dbVars, histVars>>

\* the pending fetch() or read() rejects with AbortError: catch yields
\* { done: true, finish_reason: 'stopped' }
AbortRejects ==
  /\ gen \in {"fetch", "read"} /\ signalAborted
  /\ pending' = <<Event("", "", TRUE, "stopped", "")>>
  /\ gen' = "emit" /\ lines' = <<>>
  /\ UNCHANGED <<buffer, reads, abortController, signalAborted>>
  /\ UNCHANGED <<uiVars, folderVars, storeVars, handlerVars, dbVars, histVars>>

\* mutant: the partial line of the previous chunk is dropped
readChunk_noBuffer(chunk, limit) ==
  /\ gen = "read" /\ ~signalAborted /\ reads < limit
  /\ LET ls == split(chunk)
     IN  /\ buffer' = ls[Len(ls)]
         /\ lines' = SubSeq(ls, 1, Len(ls) - 1)
         /\ gen' = IF Len(ls) > 1 THEN "emit" ELSE "read"
  /\ reads' = reads + 1
  /\ wire' = wire \o chunk
  /\ UNCHANGED <<pending, abortController, signalAborted>>
  /\ UNCHANGED <<uiVars, folderVars, storeVars, handlerVars, dbVars, yielded, scanned, stopSnap, failure>>

\* buffer += decode(value); lines = buffer.split('\n'); buffer = lines.pop() || ''
readChunk(chunk, limit) ==
  /\ gen = "read" /\ ~signalAborted /\ reads < limit
  /\ LET ls == split(buffer \o chunk)
     IN  /\ buffer' = ls[Len(ls)]
         /\ lines' = SubSeq(ls, 1, Len(ls) - 1)
         /\ gen' = IF Len(ls) > 1 THEN "emit" ELSE "read"
  /\ reads' = reads + 1
  /\ wire' = wire \o chunk
  /\ UNCHANGED <<pending, abortController, signalAborted>>
  /\ UNCHANGED <<uiVars, folderVars, storeVars, handlerVars, dbVars, yielded, scanned, stopSnap, failure>>

ReadChunk == \E chunk \in Chunks : readChunk(chunk, MaxReads)

\* if (done) break; then finally { this.abortController = null }
ReadDone ==
  /\ gen = "read" /\ ~signalAborted
  /\ gen' = "closed"
  /\ abortController' = 0
  /\ UNCHANGED <<buffer, lines, pending, reads, signalAborted>>
  /\ UNCHANGED <<uiVars, folderVars, storeVars, handlerVars, dbVars, histVars>>

\* one iteration of for (const line of lines), up to its first yield
GenLine ==
  /\ gen = "emit" /\ pending = <<>> /\ lines # <<>>
  /\ LET r == lineEvents(Head(lines))
         rest == IF r.ret THEN <<>> ELSE Tail(lines)
     IN  /\ pending' = r.evs
         /\ lines' = rest
         /\ gen' = genAfterYield(r.evs, rest)
  /\ UNCHANGED <<buffer, reads, abortController, signalAborted>>
  /\ UNCHANGED <<uiVars, folderVars, storeVars, handlerVars, dbVars, histVars>>

\* ---------------------------------------------------- handleSendMessage
RECURSIVE applyUpdates(_, _, _, _)
applyUpdates(convs, conversationId, messageId, upds) ==
  IF upds = <<>> THEN convs
  ELSE applyUpdates(updateMessage(convs, conversationId, messageId, Head(upds)),
                    conversationId, messageId, Tail(upds))

\* finally: finalMessage = getCurrentConversation()?.messages.find(...);
\* if (finalMessage) dbAddMessage(...): the number of sync requests it adds
finalSync(convs, selected, messageId) ==
  IF findMessage(convs[selected], messageId) # NoMessage THEN 1 ELSE 0

\* mutant: the flag, once set, is never cleared
setIsGenerating_onlyTrue(flag) == TRUE

\* store.setIsGenerating: set({ isGenerating })
setIsGenerating(flag) == flag

\* handleSendMessage up to its first await: addMessage twice,
\* setIsGenerating(true), the locals, and the generator up to await fetch()
Send ==
  /\ hs = "idle" /\ currentConversationId \in ConvIds
  /\ \E flag \in BOOLEAN : isReasoningModel' = flag
  /\ cid' = currentConversationId
  /\ assistantId' = AssistantMessageId
  /\ conversations' =
       addMessage(
         addMessage(conversations, currentConversationId, userMessage),
         currentConversationId,
         [id |-> AssistantMessageId, role |-> "assistant", content |-> "",
          reasoning_content |-> ""])
  /\ isGenerating' = setIsGenerating(TRUE)
  /\ fullContent' = "" /\ hasApiReasoningContent' = FALSE /\ hasFoundCloseTag' = FALSE
  /\ hs' = "streaming"
  /\ abortController' = 1 /\ signalAborted' = FALSE
  /\ gen' = "fetch"
  /\ UNCHANGED <<currentConversationId, buffer, lines, pending, reads, dbVars, histVars,
                 uiVars, folderVars>>

\* mutant: the error text is stored without its prefix
errorText_bare(message) == message

\* `Error: ${event.error}`
errorText(message) == "Error: " \o message

\* the body of for await (const event of ...) for one event: the updates it
\* issues for the assistant message, its locals afterwards, and whether it
\* breaks.  loc = [fullContent, hasApi, hasFound]; currentMsg is
\* getCurrentConversation()?.messages.find(m => m.id === assistantMessage.id)
onEvent(ev, isReasoning, loc, currentMsg) ==
  IF ev.error # "" THEN
    [upds |-> <<[content |-> errorText(ev.error)]>>, loc |-> loc, brk |-> TRUE,
     scan |-> FALSE]
  ELSE IF ev.reasoning_delta # "" THEN
    [upds |-> <<[content |-> currentMsg.content \o ev.delta,
                 reasoning_content |-> currentMsg.reasoning_content \o ev.reasoning_delta]>>,
     loc |-> [loc EXCEPT !.hasApi = TRUE], brk |-> FALSE, scan |-> FALSE]
  ELSE
    LET full == IF ev.delta # "" THEN loc.fullContent \o ev.delta ELSE loc.fullContent
        d == IF ev.delta # ""
               THEN onContentDelta(isReasoning, loc.hasApi, loc.hasFound, full, ev.delta)
               ELSE [upd |-> <<>>, found |-> loc.hasFound]
        dn == IF ev.done THEN onDone(isReasoning, loc.hasApi, full) ELSE <<>>
    IN  [upds |-> d.upd \o dn,
         loc |-> [fullContent |-> full, hasApi |-> loc.hasApi, hasFound |-> d.found],
         brk |-> ev.done,
         scan |-> (ev.delta # "" \/ ev.done) /\ usesTagScan(isReasoning, loc.hasApi)]

\* one iteration of for await (const event of ...), and on break the
\* generator's finally and the handler's finally
HandleEvent ==
  /\ hs = "streaming" /\ pending # <<>>
  /\ LET ev == Head(pending)
         r == onEvent(ev, isReasoningModel,
                      [fullContent |-> fullContent, hasApi |-> hasApiReasoningContent,
                       hasFound |-> hasFoundCloseTag],
                      findMessage(conversations[currentConversationId], assistantId))
         convs == applyUpdates(conversations, cid, assistantId, r.upds)
     IN  /\ conversations' = convs
         /\ dbUpdateCalls' = dbUpdateCalls + Len(r.upds)
         /\ fullContent' = r.loc.fullContent
         /\ hasApiReasoningContent' = r.loc.hasApi
         /\ hasFoundCloseTag' = r.loc.hasFound
         /\ scanned' = r.scan
         /\ yielded' = Append(yielded, ev)
         /\ IF r.brk
              THEN /\ pending' = <<>> /\ lines' = <<>>
                   /\ gen' = "closed" /\ abortController' = 0
                   /\ dbFinalSyncs' =
                        dbFinalSyncs + finalSync(convs, currentConversationId, assistantId)
                   /\ isGenerating' = setIsGenerating(FALSE)
                   /\ hs' = "finished"
              ELSE /\ pending' = Tail(pending)
                   /\ gen' = genAfterYield(Tail(pending), lines)
                   /\ UNCHANGED <<lines, abortController, dbFinalSyncs, isGenerating, hs>>
  /\ UNCHANGED <<currentConversationId, cid, assistantId, isReasoningModel,
                 buffer, reads, signalAborted, wire, stopSnap, failure, uiVars, folderVars>>

\* the generator finished without a done event: the loop ends, then finally
StreamEnds ==
  /\ hs = "streaming" /\ gen = "closed"
  /\ dbFinalSyncs' =
       dbFinalSyncs + finalSync(conversations, currentConversationId, assistantId)
  /\ isGenerating' = setIsGenerating(FALSE)
  /\ hs' = "finished"
  /\ scanned' = FALSE
  /\ UNCHANGED <<conversations, currentConversationId, cid, assistantId, isReasoningModel,
                 fullContent, hasApiReasoningContent, hasFoundCloseTag,
                 genVars, dbUpdateCalls, wire, yielded, stopSnap, failure, uiVars, folderVars>>

\* ---------------------------------------------------------- the user
\* store.selectConversation(id)
SelectConversation ==
  /\ AtAwait
  /\ \E id \in ConvIds : id # currentConversationId /\ currentConversationId' = id
  /\ UNCHANGED <<conversations, isGenerating, handlerVars, genVars, dbVars, histVars,
                 uiVars, folderVars>>

\* handleStopGeneration: chatAPI.stopGeneration(); setIsGenerating(false)
StopGeneration ==
  /\ AtAwait /\ hs = "streaming"
  /\ IF abortController # 0
       THEN /\ signalAborted' = TRUE /\ abortController' = 0
            /\ stopSnap' = <<assistantMsg>>
       ELSE UNCHANGED <<signalAborted, abortController, stopSnap>>
  /\ isGenerating' = setIsGenerating(FALSE)
  /\ UNCHANGED <<conversations, currentConversationId, handlerVars,
                 gen, buffer, lines, pending, reads, dbVars, wire, yielded, scanned,
                 failure, uiVars, folderVars>>

Next ==
  \/ Send
  \/ FetchOk
  \/ FetchFail
  \/ ReadChunk
  \/ ReadFail
  \/ ReadDone
  \/ AbortRejects
  \/ GenLine
  \/ HandleEvent
  \/ StreamEnds
  \/ SelectConversation
  \/ StopGeneration

Spec == Init /\ [][Next]_vars

\* ------------------------------------- one run on every path to its end
\* loadFromDatabase takes currentConversationId from the settings and the
\* conversations from their own table: the id may name a conversation the
\* store does not hold
MissingId == 3

LiveInit ==
  /\ currentConversationId \in ConvIds \cup {MissingId}
  /\ conversations = [c \in ConvIds |-> IF c = 2 THEN OldMessages ELSE <<>>]
  /\ isGenerating = FALSE
  /\ abortController = 0
  /\ signalAborted = FALSE
  /\ hs = "idle"
  /\ cid = 0
  /\ assistantId = 0
  /\ isReasoningModel = FALSE
  /\ fullContent = ""
  /\ hasApiReasoningContent = FALSE
  /\ hasFoundCloseTag = FALSE
  /\ gen = "idle"
  /\ buffer = ""
  /\ lines = <<>>
  /\ pending = <<>>
  /\ reads = 0
  /\ dbUpdateCalls = 0
  /\ dbFinalSyncs = 0
  /\ wire = ""
  /\ yielded = <<>>
  /\ scanned = FALSE
  /\ stopSnap = NoSnap
  /\ failure = ""
  /\ runs = <<>>
  /\ revision = 2
  /\ foldersLoaded

\* handleSendMessage when the store does not hold the selected conversation:
\* addMessage changes nothing, setIsGenerating(true), and in the try block
\* if (!conversation) return
SendMissing ==
  /\ hs = "idle" /\ currentConversationId \notin ConvIds
  /\ cid' = currentConversationId
  /\ assistantId' = AssistantMessageId
  /\ isGenerating' = setIsGenerating(TRUE)
  /\ hs' = "returning"
  /\ UNCHANGED <<conversations, currentConversationId, abortController, signalAborted,
                 isReasoningModel, fullContent, hasApiReasoningContent, hasFoundCloseTag,
                 genVars, dbVars, histVars, uiVars, folderVars>>

\* the finally block after that return: no message to sync,
\* setIsGenerating(false)
ReturnFinally ==
  /\ hs = "returning"
  /\ isGenerating' = setIsGenerating(FALSE)
  /\ hs' = "finished"
  /\ UNCHANGED <<conversations, currentConversationId, abortController, signalAborted,
                 cid, assistantId, isReasoningModel, fullContent, hasApiReasoningContent,
                 hasFoundCloseTag, genVars, dbVars, histVars, uiVars, folderVars>>

\* a statement of the loop body throws while an event is handled: the
\* generator is closed (its finally clears abortController), catch stores
\* the error text, finally syncs and calls setIsGenerating(false)
HandlerThrows ==
  /\ hs = "streaming" /\ pending # <<>>
  /\ LET convs == updateMessage(conversations, currentConversationId, assistantId,
                               [content |-> errorText("Unknown error occurred")])
     IN  /\ conversations' = convs
         /\ dbFinalSyncs' =
              dbFinalSyncs + finalSync(convs, currentConversationId, assistantId)
  /\ pending' = <<>> /\ lines' = <<>>
  /\ gen' = "closed" /\ abortController' = 0
  /\ isGenerating' = setIsGenerating(FALSE)
  /\ hs' = "finished"
  /\ failure' = "thrown"
  /\ UNCHANGED <<currentConversationId, cid, assistantId, isReasoningModel, fullContent,
                 hasApiReasoningContent, hasFoundCloseTag, buffer, reads, signalAborted,
                 dbUpdateCalls, wire, yielded, scanned, stopSnap, uiVars, folderVars>>

\* the chunks the transport of this run may deliver
LiveChunks ==
  { Line(JContent(" a")), Line(JReasoning("r1")), "data: {\"del", Line(JFinish("stop")),
    Line(Terminator) }

LiveReadChunk == \E chunk \in LiveChunks : readChunk(chunk, MaxLiveReads)

\* what happens without the user: the transport delivers, the generator and
\* the handler run on
Progress ==
  \/ FetchOk
  \/ FetchFail
  \/ LiveReadChunk
  \/ ReadFail
  \/ ReadDone
  \/ AbortRejects
  \/ GenLine
  \/ HandleEvent
  \/ StreamEnds
  \/ ReturnFinally

LiveNext ==
  \/ Send
  \/ SendMissing
  \/ Progress
  \/ HandlerThrows
  \/ SelectConversation
  \/ StopGeneration

\* a pending promise of the transport settles and a runnable continuation
\* runs: the steps of Progress are not put off forever
LiveSpec == LiveInit /\ [][LiveNext]_vars /\ WF_vars(Progress)

\* ------------------------------------------- the decoder on its own
\* a consumer that only iterates: for await (const event of
\* chatAPI.streamChatCompletion(...)) collect(event)
DecOpen ==
  /\ hs = "idle" /\ gen = "idle"
  /\ gen' = "fetch"
  /\ abortController' = 1 /\ signalAborted' = FALSE
  /\ UNCHANGED <<buffer, lines, pending, reads>>
  /\ UNCHANGED <<uiVars, folderVars, storeVars, handlerVars, dbVars, histVars>>

DecReadChunk == \E chunk \in DecChunks : readChunk(chunk, MaxDecReads)

\* the consumer takes the yielded event; after a done or an error event the
\* generator returns and its finally runs
DecPull ==
  /\ hs = "idle" /\ pending # <<>>
  /\ LET ev == Head(pending)
         last == returnsAfter(ev)
     IN  /\ yielded' = Append(yielded, ev)
         /\ pending' = Tail(pending)
         /\ gen' = IF last THEN "closed" ELSE genAfterYield(Tail(pending), lines)
         /\ abortController' = IF last THEN 0 ELSE abortController
  /\ UNCHANGED <<buffer, lines, reads, signalAborted>>
  /\ UNCHANGED <<uiVars, folderVars, storeVars, handlerVars, dbVars, wire, scanned, stopSnap, failure>>

\* chatAPI.stopGeneration() while the generator waits for fetch() or read()
DecStop ==
  /\ hs = "idle" /\ gen \in {"fetch", "read"}
  /\ abortController # 0
  /\ signalAborted' = TRUE /\ abortController' = 0
  /\ UNCHANGED <<gen, buffer, lines, pending, reads>>
  /\ UNCHANGED <<uiVars, folderVars, storeVars, handlerVars, dbVars, histVars>>

DecNext ==
  \/ DecOpen
  \/ FetchOk
  \/ FetchFail
  \/ DecReadChunk
  \/ ReadFail
  \/ ReadDone
  \/ AbortRejects
  \/ DecStop
  \/ GenLine
  \/ DecPull

DecSpec == Init /\ [][DecNext]_vars

\* ------------------------------------- the user interface, runs in outline
\* Several handleSendMessage runs side by side, each reduced to its place in
\* its life: "timer" (scheduled by setTimeout), "streaming" (its for await
\* loop is consuming the stream), "aborted" (still consuming, its signal
\* aborted), "ended" (its finally block has run).  abortController is 0 for
\* null and k for the controller that run k created.  App.tsx holds three
\* revisions of the component: revision tells which one is running.
Revisions == {1, 2, 3}

\* the first and the third revision push the user message a second time
\* onto the list they send
pushesTempMessage(rev) == rev \in {1, 3}

Run(how, st, asst, sent) == [how |-> how, st |-> st, assistantId |-> asst, sent |-> sent]
inFlight == {k \in 1..Len(runs) : runs[k].st \in {"streaming", "aborted"}}

\* nanoid(): the ids of the messages run k adds
userIdOf(k) == 3 + 2 * k
assistantIdOf(k) == 4 + 2 * k

\* messages.map((m) => ({ role: m.role, content: m.content }))
upstream(msgs) == [i \in 1..Len(msgs) |-> [role |-> msgs[i].role, content |-> msgs[i].content]]

\* store.deleteMessage for the messages from position from on
deleteFrom(convs, conversationId, from) ==
  [c \in ConvIds |-> IF c = conversationId THEN SubSeq(convs[c], 1, from - 1) ELSE convs[c]]

\* conversation.messages.filter(msg => msg.id !== assistantMessage.id)
withoutPlaceholder(msgs, asst) == SelectSeq(msgs, LAMBDA m : m.id # asst)

\* the message list handleSendMessage builds for streamChatCompletion
messagesToSend(msgs, asst, content, skipAddingUserMessage) ==
  upstream(withoutPlaceholder(msgs, asst))
    \o (IF pushesTempMessage(revision) /\ ~skipAddingUserMessage
          THEN <<[role |-> "user", content |-> content]>> ELSE <<>>)

\* handleSendMessage up to its first await, as run k: the user message
\* unless skipped, the placeholder, setIsGenerating(true), the message list,
\* and streamChatCompletion up to await fetch(), which stores a new
\* AbortController
startRun(k, how, convs, content, skipAddingUserMessage) ==
  LET withUser ==
        IF skipAddingUserMessage THEN convs
        ELSE addMessage(convs, currentConversationId,
                        [id |-> userIdOf(k), role |-> "user", content |-> content,
                         reasoning_content |-> ""])
      withBoth ==
        addMessage(withUser, currentConversationId,
                   [id |-> assistantIdOf(k), role |-> "assistant", content |-> "",
                    reasoning_content |-> ""])
      sent == messagesToSend(withBoth[currentConversationId], assistantIdOf(k),
                             content, skipAddingUserMessage)
      run == Run(how, "streaming", assistantIdOf(k), sent)
  IN  /\ conversations' = withBoth
      /\ runs' = IF k > Len(runs) THEN Append(runs, run) ELSE [runs EXCEPT ![k] = run]
      /\ abortController' = k
      /\ isGenerating' = TRUE

\* the send button, shown while isGenerating is false: handleSubmit
UiSendButton ==
  /\ ~isGenerating
  /\ Len(runs) < MaxRuns
  /\ startRun(Len(runs) + 1, "button", conversations, "hi", FALSE)
  /\ UNCHANGED <<currentConversationId, handlerVars, revision, folderVars,
                 gen, buffer, lines, pending, reads, signalAborted, dbVars, histVars>>

\* Enter in the textarea: handleKeyDown calls handleSubmit, whose only guards
\* are an empty input and the disabled prop, which ChatPanel never passes
UiSendEnter ==
  /\ Len(runs) < MaxRuns
  /\ startRun(Len(runs) + 1, "enter", conversations, "hi", FALSE)
  /\ UNCHANGED <<currentConversationId, handlerVars, revision, folderVars,
                 gen, buffer, lines, pending, reads, signalAborted, dbVars, histVars>>

\* the regenerate button of an assistant message: handleRegenerateMessage
\* deletes the message and those after it and sends the last user message
\* before it again
UiRegenerate ==
  /\ Len(runs) < MaxRuns
  /\ \E i \in 1..Len(conversations[currentConversationId]) :
       LET msgs == conversations[currentConversationId]
           users == {j \in 1..(i - 1) : msgs[j].role = "user"}
           lastUser == CHOOSE j \in users : \A m \in users : j >= m
           deleted == deleteFrom(conversations, currentConversationId, i)
       IN  /\ msgs[i].role = "assistant"
           /\ IF users # {}
                THEN startRun(Len(runs) + 1, "regenerate", deleted, msgs[lastUser].content, TRUE)
                ELSE /\ conversations' = deleted
                     /\ UNCHANGED <<runs, abortController, isGenerating>>
  /\ UNCHANGED <<currentConversationId, handlerVars, revision, folderVars,
                 gen, buffer, lines, pending, reads, signalAborted, dbVars, histVars>>

\* saving an edited user message: handleEditMessage updates it, deletes the
\* messages after it and schedules handleSendMessage with setTimeout
UiEdit ==
  /\ Len(runs) < MaxRuns
  /\ \E i \in 1..Len(conversations[currentConversationId]) :
       LET msgs == conversations[currentConversationId]
       IN  /\ msgs[i].role = "user"
           /\ conversations' =
                deleteFrom(updateMessage(conversations, currentConversationId, msgs[i].id,
                                         [content |-> "hi!"]),
                           currentConversationId, i + 1)
  /\ runs' = Append(runs, Run("edit", "timer", 0, <<>>))
  /\ UNCHANGED <<currentConversationId, isGenerating, handlerVars, revision, folderVars,
                 genVars, dbVars, histVars>>

\* the timer of handleEditMessage fires: handleSendMessage starts
UiEditTimer ==
  /\ \E k \in 1..Len(runs) :
       /\ runs[k].st = "timer"
       /\ startRun(k, "edit", conversations, "hi!", TRUE)
  /\ UNCHANGED <<currentConversationId, handlerVars, revision, folderVars,
                 gen, buffer, lines, pending, reads, signalAborted, dbVars, histVars>>

\* the stop button, shown while isGenerating is true: handleStopGeneration
UiStop ==
  /\ isGenerating
  /\ IF abortController # 0
       THEN /\ runs' = [runs EXCEPT ![abortController].st = "aborted"]
            /\ abortController' = 0
       ELSE UNCHANGED <<runs, abortController>>
  /\ isGenerating' = FALSE
  /\ UNCHANGED <<conversations, currentConversationId, handlerVars, revision, folderVars,
                 gen, buffer, lines, pending, reads, signalAborted, dbVars, histVars>>

\* the stream of run k ends (done, error, abort or end of the transport):
\* the generator's finally clears abortController, the handler's finally
\* calls setIsGenerating(false)
UiRunEnds ==
  /\ \E k \in inFlight : runs' = [runs EXCEPT ![k].st = "ended"]
  /\ abortController' = 0
  /\ isGenerating' = FALSE
  /\ UNCHANGED <<conversations, currentConversationId, handlerVars, revision, folderVars,
                 gen, buffer, lines, pending, reads, signalAborted, dbVars, histVars>>

UiNext ==
  \/ UiSendButton
  \/ UiSendEnter
  \/ UiRegenerate
  \/ UiEdit
  \/ UiEditTimer
  \/ UiStop
  \/ UiRunEnds

\* any of the three revisions may be the one that runs
UiInit ==
  /\ revision \in Revisions
  /\ runs = <<>>
  /\ conversations = [c \in ConvIds |-> IF c = 2 THEN OldMessages ELSE <<>>]
  /\ currentConversationId \in ConvIds
  /\ isGenerating = FALSE
  /\ abortController = 0
  /\ signalAborted = FALSE
  /\ hs = "idle"
  /\ cid = 0
  /\ assistantId = 0
  /\ isReasoningModel = FALSE
  /\ fullContent = ""
  /\ hasApiReasoningContent = FALSE
  /\ hasFoundCloseTag = FALSE
  /\ gen = "idle"
  /\ buffer = ""
  /\ lines = <<>>
  /\ pending = <<>>
  /\ reads = 0
  /\ dbUpdateCalls = 0
  /\ dbFinalSyncs = 0
  /\ wire = ""
  /\ yielded = <<>>
  /\ scanned = FALSE
  /\ stopSnap = NoSnap
  /\ failure = ""
  /\ foldersLoaded

UiSpec == UiInit /\ [][UiNext]_vars

\* ------------------------------------------------------------ the folders
Range(seq) == {seq[i] : i \in 1..Len(seq)}

\* the folders createFolder has made so far
created == (Range(folders) \cup deletedFolders) \ {DefaultFolder}

\* nanoid() of the k-th createFolder
folderIdOf(k) == "f" \o ToString(k)

\* store.createFolder: folders: [...state.folders, newFolder]
createFolder(fs, id) == Append(fs, id)

\* store.moveConversationToFolder
moveConversationToFolder(fids, conversationId, id) ==
  [c \in DOMAIN fids |-> IF c = conversationId THEN id ELSE fids[c]]

\* mutant: the folder is removed and its conversations keep their folderId
deleteFolder_keepsFolderId(fs, fids, id) ==
  IF id = DefaultFolder THEN [folders |-> fs, folderId |-> fids]
  ELSE [folders |-> SelectSeq(fs, LAMBDA f : f # id), folderId |-> fids]

\* store.deleteFolder
deleteFolder(fs, fids, id) ==
  IF id = DefaultFolder THEN [folders |-> fs, folderId |-> fids]
  ELSE [folders |-> SelectSeq(fs, LAMBDA f : f # id),
        folderId |-> [c \in DOMAIN fids |->
                        IF fids[c] = id THEN DefaultFolder ELSE fids[c]]]

\* the new-folder control of the sidebar
CreateFolder ==
  /\ Cardinality(created) < MaxFolders
  /\ LET id == folderIdOf(Cardinality(created) + 1)
     IN  /\ folders' = createFolder(folders, id)
         /\ folderOp' = [op |-> "createFolder", id |-> id, moved |-> {}]
  /\ UNCHANGED <<folderId, deletedFolders, storeVars, handlerVars, genVars, dbVars,
                 histVars, uiVars>>

\* dropping a conversation on a folder, or choosing a folder in the dialog:
\* the folder is one of those shown
MoveConversation ==
  /\ \E c \in ConvIds, i \in 1..Len(folders) :
       /\ folderId' = moveConversationToFolder(folderId, c, folders[i])
       /\ folderOp' = [op |-> "moveConversationToFolder", id |-> folders[i], moved |-> {c}]
  /\ UNCHANGED <<folders, deletedFolders, storeVars, handlerVars, genVars, dbVars,
                 histVars, uiVars>>

\* FolderItem.handleDelete after the confirm dialog, and store.deleteFolder
\* called for the default folder
DeleteFolder ==
  /\ \E i \in 1..Len(folders) :
       LET id == folders[i]
           after == deleteFolder(folders, folderId, id)
       IN  /\ folders' = after.folders
           /\ folderId' = after.folderId
           /\ deletedFolders' = deletedFolders \cup (Range(folders) \ Range(after.folders))
           /\ folderOp' = [op |-> "deleteFolder", id |-> id,
                           moved |-> {c \in ConvIds : folderId[c] = id}]
  /\ UNCHANGED <<storeVars, handlerVars, genVars, dbVars, histVars, uiVars>>

FolderNext ==
  \/ CreateFolder
  \/ MoveConversation
  \/ DeleteFolder

FolderSpec == Init /\ [][FolderNext]_vars

\* ================================================================ claims
\* what the events consumed so far carried
RECURSIVE concatDeltas(_)
concatDeltas(evs) ==
  IF evs = <<>> THEN "" ELSE Head(evs).delta \o concatDeltas(Tail(evs))

RECURSIVE concatReasoning(_)
concatReasoning(evs) ==
  IF evs = <<>> THEN "" ELSE Head(evs).reasoning_delta \o concatReasoning(Tail(evs))

noErrorEvent(evs) == \A i \in 1..Len(evs) : evs[i].error = ""
noReasoningDelta(evs) == \A i \in 1..Len(evs) : evs[i].reasoning_delta = ""
lastIsContentDelta(evs) == evs # <<>> /\ evs[Len(evs)].delta # ""
lastIsDone(evs) == evs # <<>> /\ evs[Len(evs)].done
contentDeltaCount(evs) == Cardinality({i \in 1..Len(evs) : evs[i].delta # ""})

C2_FallbackToContent ==
  (/\ hs = "finished" /\ isReasoningModel
   /\ noErrorEvent(yielded) /\ noReasoningDelta(yielded) /\ lastIsDone(yielded)
   /\ closeTagRegexIndex(concatDeltas(yielded)) = -1)
    => /\ assistantMsg.content = concatDeltas(yielded)
       /\ assistantMsg.reasoning_content = ""

C2_Witness ==
  /\ hs = "finished" /\ isReasoningModel
  /\ noReasoningDelta(yielded) /\ lastIsDone(yielded)
  /\ contentDeltaCount(yielded) = 2
  /\ assistantMsg.content = " a</THI"
  /\ assistantMsg.reasoning_content = ""

\* C3: for a reasoning-flagged model without API reasoning, after any
\* ContentDelta the (reasoning, content) pair is the one the whole accumulated
\* text gives when it arrives as a single delta, however it was cut into
\* deltas.
wholeTextSplit(text) == onContentDelta(TRUE, FALSE, FALSE, text, text).upd[1]

C3_CumulativeDetection ==
  (/\ hs # "idle" /\ isReasoningModel
   /\ noErrorEvent(yielded) /\ noReasoningDelta(yielded) /\ lastIsContentDelta(yielded))
    => LET whole == wholeTextSplit(concatDeltas(yielded))
       IN  /\ assistantMsg.content = whole.content
           /\ assistantMsg.reasoning_content = whole.reasoning_content

\* the tag arrived cut in two ("</THI" then "nk> c") and was found
C3_Witness ==
  /\ hs = "streaming" /\ isReasoningModel /\ noReasoningDelta(yielded)
  /\ contentDeltaCount(yielded) >= 2
  /\ \A i \in 1..Len(yielded) : closeTagRegexIndex(yielded[i].delta) = -1
  /\ hasFoundCloseTag
  /\ assistantMsg.content = "c"
  /\ assistantMsg.reasoning_content = "a"

\* C4 (as written): when the accumulated text of a reasoning-flagged model
\* without API reasoning holds <think> and a following </think>, the final
\* reasoning is the text strictly between the first <think> and the first
\* following </think>, and the final content is the text before the opening
\* tag followed by the text after the closing tag, trimmed.
tagPair(text) ==
  LET open == indexOf(text, OpenTag)
      inner == IF open = -1 THEN "" ELSE substringFrom(text, open + Len(OpenTag))
      close == closeTagRegexIndex(inner)
  IN  [found |-> open # -1 /\ close # -1,
       reasoning |-> substring(inner, 0, close),
       content |-> trim(substring(text, 0, open)
                        \o substringFrom(inner, close + Len(CloseTag)))]

C4_Original ==
  (/\ hs = "finished" /\ isReasoningModel
   /\ noErrorEvent(yielded) /\ noReasoningDelta(yielded) /\ lastIsDone(yielded)
   /\ tagPair(concatDeltas(yielded)).found)
    => /\ assistantMsg.reasoning_content = tagPair(concatDeltas(yielded)).reasoning
       /\ assistantMsg.content = tagPair(concatDeltas(yielded)).content

\* C5: once a ReasoningDelta was handled, hasApiReasoningContent stays true
\* and no later step of the handler runs the tag scan.
C5_ApiReasoningBypassesScan ==
  [][hasApiReasoningContent => (hasApiReasoningContent' /\ ~scanned')]_vars

\* after API reasoning, a text holding the closing tag went to content as it is
C5_Witness ==
  /\ hasApiReasoningContent /\ isReasoningModel
  /\ lastIsContentDelta(yielded)
  /\ closeTagRegexIndex(fullContent) # -1
  /\ assistantMsg.content = fullContent

\* C6 (as written): for events ReasoningDelta* ContentDelta* finish_reason the
\* final reasoning is the concatenation of the ReasoningDelta texts and the
\* final content the concatenation of the ContentDelta texts.
reasoningThenContent(evs) ==
  /\ \E i \in 1..Len(evs) : evs[i].reasoning_delta # ""
  /\ \A i, j \in 1..Len(evs) :
       (evs[i].delta # "" /\ evs[j].reasoning_delta # "") => j < i
  /\ lastIsDone(evs) /\ evs[Len(evs)].finish_reason = "stop"

C6_Original ==
  (hs = "finished" /\ reasoningThenContent(yielded))
    => /\ assistantMsg.reasoning_content = concatReasoning(yielded)
       /\ assistantMsg.content = concatDeltas(yielded)

\* C7 (as written): after stopGeneration aborted the stream, the message keeps
\* the content and reasoning it had when the stream was aborted.
C7_Original ==
  (hs = "finished" /\ stopSnap # NoSnap) => assistantMsg = stopSnap[1]

\* C7 (amended): an abort is handled as a Done event: no error text replaces
\* the message; content and reasoning stay as they were at the abort, except
\* that for a reasoning-flagged message without API reasoning whose text holds
\* no closing tag the end-of-stream fallback moves the accumulated text to
\* content and clears reasoning.
C7_AbortIsDone ==
  (hs = "finished" /\ stopSnap # NoSnap)
    => assistantMsg =
         IF isReasoningModel /\ ~hasApiReasoningContent
              /\ closeTagRegexIndex(fullContent) = -1
           THEN [stopSnap[1] EXCEPT !.content = fullContent, !.reasoning_content = ""]
           ELSE stopSnap[1]

C7_Witness ==
  /\ hs = "finished" /\ stopSnap # NoSnap /\ ~isReasoningModel
  /\ lastIsDone(yielded) /\ yielded[Len(yielded)].finish_reason = "stopped"
  /\ stopSnap[1].content = " a</THI"
  /\ assistantMsg = stopSnap[1]

\* C8 (as written): the message is flushed to durable storage exactly once,
\* by the finalization at the end of the stream, and by no delta.  Stated
\* here in its weakest form: for a stream without an Error event whose
\* conversation stays selected.
C8_Original ==
  (noErrorEvent(yielded) /\ currentConversationId = cid)
    => /\ hs = "streaming" => dbUpdateCalls = 0
       /\ hs = "finished" => dbFinalSyncs = 1

\* C9 (as written): the final (content, reasoning) is a function of the event
\* sequence and the model flag: every run ends as a fresh pipeline does that
\* is fed the same events.
RECURSIVE replay(_, _, _, _)
replay(evs, isReasoning, loc, msg) ==
  IF evs = <<>> THEN msg
  ELSE LET r == onEvent(Head(evs), isReasoning, loc, msg)
           RECURSIVE merged(_, _)
           merged(m, upds) ==
             IF upds = <<>> THEN m ELSE merged(mergeMessage(m, Head(upds)), Tail(upds))
       IN  replay(Tail(evs), isReasoning, r.loc, merged(msg, r.upds))

freshPipeline(evs, isReasoning) ==
  replay(evs, isReasoning,
         [fullContent |-> "", hasApi |-> FALSE, hasFound |-> FALSE],
         [id |-> AssistantMessageId, role |-> "assistant", content |-> "",
          reasoning_content |-> ""])

C9_Original ==
  hs = "finished" => assistantMsg = freshPipeline(yielded, isReasoningModel)

\* C10: whatever the chunk boundaries, the events yielded for a text the
\* transport delivered (no failure, no abort) are those of the same text
\* arriving as one chunk.
RECURSIVE eventsOfLines(_)
eventsOfLines(ls) ==
  IF ls = <<>> THEN <<>>
  ELSE LET r == lineEvents(Head(ls))
       IN  r.evs \o (IF r.ret THEN <<>> ELSE eventsOfLines(Tail(ls)))

eventsOfOneChunk(text) ==
  LET ls == split(text) IN eventsOfLines(SubSeq(ls, 1, Len(ls) - 1))

C10_ChunkIndependent ==
  (hs = "idle" /\ gen \in {"read", "closed"} /\ failure = "" /\ ~signalAborted)
    => yielded = eventsOfOneChunk(wire)

\* a line cut in two chunks gave its event
C10_Witness ==
  /\ hs = "idle" /\ gen = "read" /\ reads = 2
  /\ wire = Line(JLegacy("d"))
  /\ yielded = <<Event("", "d", FALSE, "", "")>>

\* the decoder is between two reads or has finished, and the transport
\* neither failed nor was aborted
delivered ==
  hs = "idle" /\ gen \in {"read", "closed"} /\ failure = "" /\ ~signalAborted

completeLines(text) == LET ls == split(text) IN SubSeq(ls, 1, Len(ls) - 1)
payloadOf(line) == trim(substringFrom(line, Len(DataPrefix)))
isFinal(ev) == ev.done \/ ev.error # ""
noFinalEvent(evs) == \A i \in 1..Len(evs) : ~isFinal(evs[i])
onlyLastIsFinal(evs) == \A i \in 1..(Len(evs) - 1) : ~isFinal(evs[i])

\* C11 (as written): a line without the data prefix, a payload that is not
\* valid JSON, or a JSON payload of unrecognized shape yields no event and
\* does not end the stream: the events yielded are those of the text without
\* its malformed lines.
notValidJSON(data) == data # Terminator /\ ~JSONparse(data).ok
unrecognizedShape(data) ==
  LET parsed == JSONparse(data)
  IN  parsed.ok /\ parsed.choices = <<>> /\ parsed.delta = "" /\ ~parsed.done
wellFormed(line) ==
  /\ startsWith(line, DataPrefix)
  /\ ~notValidJSON(payloadOf(line))
  /\ ~unrecognizedShape(payloadOf(line))

C11_Original ==
  delivered => yielded = eventsOfLines(SelectSeq(completeLines(wire), wellFormed))

\* C12: what the claim's precedence of shapes gives for one decoded payload;
\* standard tells whether the payload has the first shape
shapeEvents(parsed, standard) ==
  IF standard THEN
    LET choice == parsed.choices[1]
    IN  (IF choice.delta.reasoning_content # ""
           THEN <<Event(choice.delta.reasoning_content, "", FALSE, "", "")>> ELSE <<>>)
        \o (IF choice.delta.content # ""
           THEN <<Event("", choice.delta.content, FALSE, "", "")>> ELSE <<>>)
        \o (IF choice.finish_reason # ""
           THEN <<Event("", "", TRUE, choice.finish_reason, "")>> ELSE <<>>)
  ELSE IF parsed.delta # "" THEN <<Event("", parsed.delta, FALSE, "", "")>>
  ELSE IF parsed.done THEN <<Event("", "", TRUE, "", "")>>
  ELSE <<>>

isJSONLine(line) ==
  /\ startsWith(line, DataPrefix)
  /\ payloadOf(line) \notin {"", Terminator}
  /\ JSONparse(payloadOf(line)).ok

\* the events of a sequence of lines when every JSON payload is decoded by
\* the precedence of shapes; needsDelta: the first shape is "choices[0] has a
\* delta object" rather than "choices[0] is present"
RECURSIVE eventsByShape(_, _)
eventsByShape(ls, needsDelta) ==
  IF ls = <<>> THEN <<>>
  ELSE LET line == Head(ls)
           parsed == JSONparse(payloadOf(line))
           standard == /\ parsed.choices # <<>>
                       /\ (needsDelta => parsed.choices[1].delta.present)
           evs == IF isJSONLine(line) THEN shapeEvents(parsed, standard)
                  ELSE lineEvents(line).evs
       IN  evs \o (IF evs # <<>> /\ evs[Len(evs)].done THEN <<>>
                   ELSE eventsByShape(Tail(ls), needsDelta))

\* C12 (as written): the shapes are tried in the order (1) a choices[0].delta
\* object, (2) a top-level delta, (3) a truthy top-level done, (4) nothing;
\* within (1) a ReasoningDelta, then a ContentDelta, then Done are emitted
\* for a non-empty reasoning_content, a non-empty content, a finish_reason.
C12_Original ==
  delivered => yielded = eventsByShape(completeLines(wire), TRUE)

\* C12 (amended): as written, but the first shape is a present choices[0],
\* whose delta is read as empty when the choice has none.
C12_ShapePrecedence ==
  delivered => yielded = eventsByShape(completeLines(wire), FALSE)

\* a payload of every shape at once gave reasoning, content, Done, in order
C12_Witness ==
  /\ delivered /\ gen = "closed"
  /\ wire = Line(JLegacyAndDone) \o Line(JEveryShape)
  /\ yielded = <<Event("", "d", FALSE, "", ""), Event("r1", "", FALSE, "", ""),
                 Event("", " a", FALSE, "", ""), Event("", "", TRUE, "stop", "")>>

\* C13: once a Done event was yielded no further event is yielded, and the
\* generator has finished when the consumer has taken it.
C13_DoneIsTerminal ==
  /\ \A i \in 1..(Len(yielded) - 1) : ~yielded[i].done
  /\ (hs = "idle" /\ lastIsDone(yielded)) => (gen = "closed" /\ pending = <<>>)

\* Done came from the middle line of a chunk of three
C13_Witness ==
  /\ hs = "idle" /\ gen = "closed"
  /\ wire = Line(JLegacyAndDone)
            \o Line(JNullFinish(" a")) \o Line(JFinish("stop")) \o Line(JLegacy("d"))
  /\ yielded = <<Event("", "d", FALSE, "", ""), Event("", " a", FALSE, "", ""),
                 Event("", "", TRUE, "stop", "")>>

\* C14: a transport failure ends the stream with exactly one final event: an
\* abort with Done{stopped}, any other failure with Error{message}; nothing
\* is yielded after it.
endsWith(final) ==
  \/ gen = "emit" /\ pending = <<final>> /\ noFinalEvent(yielded)
  \/ /\ gen = "closed" /\ pending = <<>>
     /\ yielded # <<>> /\ yielded[Len(yielded)] = final /\ onlyLastIsFinal(yielded)

C14_TransportFailure ==
  hs = "idle" =>
    /\ failure # "" => endsWith(Event("", "", FALSE, "", failure))
    /\ signalAborted =>
         \/ gen \in {"fetch", "read"} /\ pending = <<>> /\ noFinalEvent(yielded)
         \/ endsWith(Event("", "", TRUE, "stopped", ""))

\* read() failed after two events were yielded
C14_Witness ==
  /\ hs = "idle" /\ gen = "closed" /\ failure = "network error"
  /\ yielded = <<Event("r2", "", FALSE, "", ""), Event("", "b ", FALSE, "", ""),
                 Event("", "", FALSE, "", "network error")>>

\* C15: when an Error event arrives the handler stops: the content is the
\* error text prefixed with "Error: ", the Error event is the last event the
\* handler takes, and neither the tag scan nor the end-of-stream fallback
\* runs for it or after it.
errorEvents(evs) == {i \in 1..Len(evs) : evs[i].error # ""}

C15_ErrorStops ==
  (hs # "idle" /\ errorEvents(yielded) # {})
    => /\ errorEvents(yielded) = {Len(yielded)}
       /\ hs = "finished" /\ gen = "closed" /\ pending = <<>>
       /\ assistantMsg.content = "Error: " \o yielded[Len(yielded)].error
       /\ ~scanned

\* a reasoning-flagged message whose text was still held as reasoning: the
\* error text replaced the content and no fallback moved the text
C15_Witness ==
  /\ hs = "finished" /\ isReasoningModel
  /\ yielded = <<Event("", " a", FALSE, "", ""), Event("", "", FALSE, "", "network error")>>
  /\ assistantMsg.content = "Error: network error"
  /\ assistantMsg.reasoning_content = " a"

\* C16 (as written): at most one generation is in flight: across the user
\* actions send (button or Enter), regenerate, edit-and-resend and stop, a
\* new stream is never started while an earlier one is still being consumed.
C16_Original == Cardinality(inFlight) <= 1

\* the handler has just handled a ContentDelta of a reasoning-flagged model
\* without API reasoning
afterScannedDelta ==
  /\ hs # "idle" /\ isReasoningModel /\ lastIsContentDelta(yielded)
  /\ noErrorEvent(yielded) /\ noReasoningDelta(yielded)

\* C17 (as written): while the accumulated text holds no closing tag, after a
\* ContentDelta the reasoning is the accumulated text trimmed and the content
\* is empty.
C17_Original ==
  (afterScannedDelta /\ closeTagRegexIndex(concatDeltas(yielded)) = -1)
    => /\ assistantMsg.reasoning_content = trim(concatDeltas(yielded))
       /\ assistantMsg.content = ""

\* C17 (amended): while the accumulated text holds no closing tag, after a
\* ContentDelta the reasoning is the accumulated text as received, untrimmed,
\* and the content is empty.
C17_ReasoningWhileOpen ==
  (afterScannedDelta /\ closeTagRegexIndex(concatDeltas(yielded)) = -1)
    => /\ assistantMsg.reasoning_content = concatDeltas(yielded)
       /\ assistantMsg.content = ""

\* the leading blank of " a" is kept
C17_Witness ==
  /\ afterScannedDelta /\ hs = "streaming"
  /\ contentDeltaCount(yielded) = 2
  /\ assistantMsg.reasoning_content = " a</THI"
  /\ assistantMsg.content = ""

\* C18: once the closing tag was found the split point is its first
\* occurrence (ignoring case) and never moves: after every later ContentDelta
\* reasoning and content are the trimmed texts before and after the index
\* that was found first, whatever further tags later deltas bring.
contentDeltas(evs) == SelectSeq(evs, LAMBDA ev : ev.delta # "")

\* the index found when the tag was first seen: its index in the shortest
\* run of deltas whose text holds it
firstSplitIndex(evs) ==
  LET ds == contentDeltas(evs)
      seen == {n \in 1..Len(ds) : closeTagRegexIndex(concatDeltas(SubSeq(ds, 1, n))) # -1}
      first == CHOOSE n \in seen : \A m \in seen : n <= m
  IN  IF seen = {} THEN -1 ELSE closeTagRegexIndex(concatDeltas(SubSeq(ds, 1, first)))

C19_CloseTagFoundMonotonic ==
  [][/\ (hs = "idle" /\ hs' = "streaming") => ~hasFoundCloseTag'
     /\ (hs # "idle" /\ hasFoundCloseTag) => hasFoundCloseTag']_vars

\* the tag was found and a later delta without a tag was handled
C19_Witness ==
  /\ afterScannedDelta /\ hasFoundCloseTag
  /\ contentDeltaCount(yielded) = 2
  /\ closeTagRegexIndex(yielded[Len(yielded)].delta) = -1
  /\ closeTagRegexIndex(yielded[1].delta) # -1

\* C20 (as written): however a stream without an Error event ends
\* (terminator, finish_reason, done flag, abort, or the transport closing
\* without a terminator), a reasoning-flagged message without API reasoning
\* and without a closing tag ends with all accumulated text as content and
\* no reasoning.
C20_Original ==
  (/\ hs = "finished" /\ isReasoningModel
   /\ noErrorEvent(yielded) /\ noReasoningDelta(yielded)
   /\ closeTagRegexIndex(concatDeltas(yielded)) = -1)
    => /\ assistantMsg.content = concatDeltas(yielded)
       /\ assistantMsg.reasoning_content = ""

\* the updates the handler is about to issue for the event it is given
handlerAtEvent == hs = "streaming" /\ pending # <<>>
issued ==
  onEvent(Head(pending), isReasoningModel,
          [fullContent |-> fullContent, hasApi |-> hasApiReasoningContent,
           hasFound |-> hasFoundCloseTag],
          findMessage(conversations[currentConversationId], assistantId)).upds
supplied(upd, field) == IF field \in DOMAIN upd THEN upd[field] ELSE ""

\* C21 (as written): each updateMessage call fully replaces the message's
\* content and reasoning with the supplied pair: after the call the stored
\* pair is the pair of that call.
C21_Original ==
  [][(handlerAtEvent /\ issued # <<>>)
       => LET upd == issued[Len(issued)]
          IN  /\ assistantMsg'.content = supplied(upd, "content")
              /\ assistantMsg'.reasoning_content = supplied(upd, "reasoning_content")]_vars

\* C21 (amended): each updateMessage call replaces the fields it supplies
\* (it never appends) and leaves the fields it does not supply as they were;
\* applying the same update a second time changes nothing.
C21_LastWriteWins ==
  [][(handlerAtEvent /\ issued # <<>>)
       => LET upd == issued[Len(issued)]
          IN  /\ \A field \in {"content", "reasoning_content"} :
                   assistantMsg'[field] =
                     IF field \in DOMAIN upd THEN upd[field] ELSE assistantMsg[field]
              /\ updateMessage(conversations', cid, assistantId, upd) = conversations']_vars

\* a content-only update left the reasoning of the message in place
C21_Witness ==
  /\ hs = "streaming" /\ hasApiReasoningContent /\ lastIsContentDelta(yielded)
  /\ assistantMsg.content = " a"
  /\ assistantMsg.reasoning_content = "r1"

\* C22: the updates of the pipeline change the streaming assistant message
\* only: every other message, in its conversation or in another one, is what
\* it was when it was added.
otherMessages(c) == SelectSeq(conversations[c], LAMBDA m : m.id # AssistantMessageId)

C22_OnlyOwnMessage ==
  \A c \in ConvIds :
    otherMessages(c) = (IF c = 2 THEN OldMessages ELSE <<>>)
                       \o (IF c = cid THEN <<userMessage>> ELSE <<>>)

\* a stream in the conversation that holds the earlier exchange has ended
C22_Witness ==
  /\ hs = "finished" /\ cid = 2 /\ Len(conversations[2]) = 4
  /\ assistantMsg.content = " a" /\ assistantMsg.reasoning_content = "r1"
  /\ SubSeq(conversations[2], 1, 2) = OldMessages

\* C23 (as written): the message list handleSendMessage sends upstream is
\* the conversation's history in order without the new placeholder, so the
\* user message just sent is in it exactly once.
startedNow(k) ==
  /\ k \in 1..Len(runs') /\ runs'[k].st = "streaming"
  /\ (k > Len(runs) \/ runs[k].st = "timer")

C23_Original ==
  [][\A k \in 1..MaxRuns :
       startedNow(k)
         => runs'[k].sent =
              upstream(SelectSeq(conversations'[currentConversationId],
                                 LAMBDA m : m.id # runs'[k].assistantId))]_vars

\* C24 (as written): an event with a ReasoningDelta appends the delta to the
\* reasoning of the streaming message and leaves its content in place,
\* whichever conversation is selected when the event is handled.
C24_Original ==
  [][(handlerAtEvent /\ Head(pending).error = "" /\ Head(pending).reasoning_delta # "")
       => /\ assistantMsg'.reasoning_content =
               assistantMsg.reasoning_content \o Head(pending).reasoning_delta
          /\ assistantMsg'.content = assistantMsg.content \o Head(pending).delta]_vars

\* C25 (as written): while a stream is running and not yet aborted, the
\* shared abortController is the controller of the most recently started of
\* the running streams, so that stopGeneration aborts it.
running == {k \in 1..Len(runs) : runs[k].st = "streaming"}

C25_Original ==
  running # {} => abortController = CHOOSE k \in running : \A j \in running : k >= j

\* C26: a handleSendMessage run that has set isGenerating to true reaches
\* its finally block, which sets isGenerating to false, on every path: a done
\* event, an error event, an abort, a thrown exception, the return for a
\* missing conversation, and the transport ending without a terminator.
C26_GeneratingEnds ==
  (hs \in {"streaming", "returning"}) ~> (hs = "finished" /\ ~isGenerating)

\* an aborted run has run its finally block
C26_Witness ==
  /\ hs = "finished" /\ ~isGenerating
  /\ signalAborted /\ yielded # <<>> /\ lastIsDone(yielded) /\ Len(yielded) = 2

\* C27 (as written): for a reasoning-flagged model whose stream delivers
\* ContentDeltas before its first ReasoningDelta, the text of those
\* ContentDeltas is, at the end of the stream, not in both reasoning and
\* content.
firstReasoningIndex(evs) ==
  LET hits == {i \in 1..Len(evs) : evs[i].reasoning_delta # ""}
  IN  IF hits = {} THEN 0 ELSE CHOOSE i \in hits : \A j \in hits : i <= j

earlyText(evs) ==
  IF firstReasoningIndex(evs) = 0 THEN ""
  ELSE concatDeltas(SubSeq(evs, 1, firstReasoningIndex(evs) - 1))

holdsText(field, text) == indexOf(field, text) # -1

C27_Original ==
  (hs = "finished" /\ isReasoningModel /\ earlyText(yielded) # "" /\ noErrorEvent(yielded))
    => ~(/\ holdsText(assistantMsg.reasoning_content, earlyText(yielded))
         /\ holdsText(assistantMsg.content, earlyText(yielded)))

\* C28 (as written): a data line whose payload is empty after trimming is
\* skipped: the events yielded are those of the text without its empty data
\* lines, so the lines after one are still interpreted.
emptyDataLine(line) == startsWith(line, DataPrefix) /\ payloadOf(line) = ""

C28_Original ==
  delivered
    => yielded = eventsOfLines(SelectSeq(completeLines(wire),
                                         LAMBDA line : ~emptyDataLine(line)))

\* C29 (as written): when the transport has ended, every line of the text
\* has been interpreted, the last one also when no newline follows it: the
\* events yielded are those of all the lines of the text.
C29_Original ==
  (delivered /\ gen = "closed") => yielded = eventsOfLines(split(wire))

\* C30: deleteFolder on the default folder changes nothing; deleteFolder on
\* another folder f removes exactly f from the folders, gives every
\* conversation whose folderId was f the default folder, and leaves the
\* conversations and the folderId of the others as they were; so after any
\* createFolder, moveConversationToFolder to an existing folder and
\* deleteFolder no conversation has the folderId of a deleted folder.
C30_FolderDeletion ==
  [][/\ folderOp'.op = "deleteFolder" =>
          LET f == folderOp'.id
          IN  IF f = DefaultFolder
                THEN folders' = folders /\ folderId' = folderId
                ELSE /\ Range(folders') = Range(folders) \ {f}
                     /\ Len(folders') = Len(folders) - 1
                     /\ DOMAIN folderId' = DOMAIN folderId
                     /\ \A c \in DOMAIN folderId :
                          folderId'[c] = IF folderId[c] = f THEN DefaultFolder
                                         ELSE folderId[c]
     /\ \A c \in DOMAIN folderId' : folderId'[c] \notin deletedFolders']_vars

\* folder f1 held conversation 1 when it was deleted; conversation 2 stays
\* in f2
C30_Witness ==
  /\ folderOp = [op |-> "deleteFolder", id |-> "f1", moved |-> {1}]
  /\ folderId[1] = DefaultFolder /\ folderId[2] = "f2"
  /\ deletedFolders = {"f1"}

====
